---- MODULE Spec2Model ----
(***************************************************************************)
(* Model of the finance dashboard in src/main.py: the category rule file,  *)
(* load_transactions / categorize_transactions, and the steps of main()    *)
(* that derive the 12-month window, the cumulative balance, the monthly    *)
(* summary, the category spend and the top vendors from an uploaded CSV.   *)
(*                                                                         *)
(* Text (descriptions, keywords, column headers) is a sequence of          *)
(* one-character strings.  Amounts are integers (cents).  A DataFrame is a *)
(* record [columns, rows]: columns is the sequence of column names, rows   *)
(* the sequence of rows, each row a function from column name to cell.     *)
(***************************************************************************)
EXTENDS Integers, Sequences, FiniteSets, TLC

\* Largest number of rows of an uploaded CSV.
MaxRows == 2
\* Largest number of categories of a persisted rule document.
MaxCats == 2

VARIABLES
    category_file,   \* the rule document on disk: [exists, valid, content]
    uploaded_file,   \* the uploaded CSV: [present, header, rows]
    today,           \* datetime.date.today()
    pc,              \* position of main()
    categories,      \* main's local `categories`
    df,              \* main's local `df`: [ok, columns, rows]; ok = FALSE is None
    errors,          \* number of st.error messages shown
    exception,       \* the uncaught exception that ended main(), "" if none
    df_last12,       \* rows of df inside the window
    df_sorted,       \* df_last12 sorted by Date, with Net Balance
    monthly_sum,     \* rows of the Monthly Summary table
    pie_df,          \* rows of Spending by Category
    vendor_df,       \* rows of Top Vendors
    rendered         \* the outputs written to the page so far

vars == <<category_file, uploaded_file, today, pc, categories, df, errors,
          exception, df_last12, df_sorted, monthly_sum, pie_df, vendor_df,
          rendered>>

-----------------------------------------------------------------------------
(* Text *)

Whitespace == {" "}

\* str.lower() on the letters the inputs use.
LowerChar(c) ==
    CASE c = "A" -> "a"
      [] c = "B" -> "b"
      [] OTHER -> c

Lower(s) == [i \in 1..Len(s) |-> LowerChar(s[i])]

RECURSIVE LStrip(_)
LStrip(s) == IF s # <<>> /\ Head(s) \in Whitespace THEN LStrip(Tail(s)) ELSE s

RECURSIVE RStrip(_)
RStrip(s) ==
    IF s # <<>> /\ s[Len(s)] \in Whitespace
    THEN RStrip(SubSeq(s, 1, Len(s) - 1))
    ELSE s

\* str.strip()
Strip(s) == RStrip(LStrip(s))

\* Python's `keyword in description` on strings.
Contains(keyword, description) ==
    \E i \in 0..(Len(description) - Len(keyword)) :
        SubSeq(description, i + 1, i + Len(keyword)) = keyword

Range(s) == {s[i] : i \in 1..Len(s)}

\* Column names.
DateCol == <<"D", "a", "t", "e">>
DescriptionCol ==
    <<"D", "e", "s", "c", "r", "i", "p", "t", "i", "o", "n">>
AmountCol == <<"A", "m", "o", "u", "n", "t">>
MemoCol == <<"M", "e", "m", "o">>
CategoryCol == <<"C", "a", "t", "e", "g", "o", "r", "y">>
NetBalanceCol ==
    <<"N", "e", "t", " ", "B", "a", "l", "a", "n", "c", "e">>

-----------------------------------------------------------------------------
(* Results of operations that may raise *)

Ok(v) == [ok |-> TRUE, value |-> v, err |-> ""]
Raise(e) == [ok |-> FALSE, value |-> <<>>, err |-> e]

NoDf == [ok |-> FALSE, columns |-> <<>>, rows |-> <<>>]
Frame(cols, rws) == [ok |-> TRUE, columns |-> cols, rows |-> rws]
HasColumn(frame, col) == col \in Range(frame.columns)

-----------------------------------------------------------------------------
(* Dates *)

IsLeap(y) == (y % 4 = 0 /\ y % 100 # 0) \/ y % 400 = 0

DaysInMonth(y, m) ==
    IF m = 2 THEN (IF IsLeap(y) THEN 29 ELSE 28)
    ELSE IF m \in {4, 6, 9, 11} THEN 30 ELSE 31

MkDate(y, m, d) == [year |-> y, month |-> m, day |-> d]

\* A Date cell of the CSV, MM/DD/YYYY, as the three numbers in text order.
RawDate(mm, dd, yyyy) == [mm |-> mm, dd |-> dd, yyyy |-> yyyy]

\* pd.to_datetime(..., format="%m/%d/%Y") then .dt.date, on one cell.
ValidRawDate(r) ==
    /\ r.mm \in 1..12
    /\ r.dd \in 1..DaysInMonth(r.yyyy, r.mm)

ParseDate(r) == MkDate(r.yyyy, r.mm, r.dd)

DateLE(a, b) ==
    \/ a.year < b.year
    \/ a.year = b.year /\ a.month < b.month
    \/ a.year = b.year /\ a.month = b.month /\ a.day <= b.day

-----------------------------------------------------------------------------
(* categorize_transactions *)

FallbackCategory == "Uncategorized"

\* The default rule set of main().
DefaultCategories == <<[name |-> FallbackCategory, keywords |-> <<>>]>>

\* lowered_keywords = [keyword.lower().strip() for keyword in keywords]
LoweredKeywords(keywords) ==
    [k \in 1..Len(keywords) |-> Strip(Lower(keywords[k]))]

\* A faulty variant of DescriptionOf: the description is compared as written.
DescriptionAsWritten(row) == row[DescriptionCol]

\* description = row["Description"].lower().strip()
DescriptionOf(row) == Strip(Lower(row[DescriptionCol]))

\* for keyword in lowered_keywords: if keyword in description: ... break
KeywordMatches(lowered_keywords, description) ==
    \E k \in 1..Len(lowered_keywords) :
        Contains(lowered_keywords[k], description)

\* A faulty variant of AssignRow: a row that already has a category keeps it.
AssignRowFirstWins(row, category, lowered_keywords) ==
    IF /\ row[CategoryCol] = FallbackCategory
       /\ KeywordMatches(lowered_keywords, DescriptionOf(row))
    THEN [row EXCEPT ![CategoryCol] = category]
    ELSE row

\* One iteration of the row loop: df.at[idx, "Category"] = category on a match.
AssignRow(row, category, lowered_keywords) ==
    IF KeywordMatches(lowered_keywords, DescriptionOf(row))
    THEN [row EXCEPT ![CategoryCol] = category]
    ELSE row

\* A faulty variant of Skipped: only an empty keyword list is skipped.
SkippedOnlyWhenEmpty(rule) == rule.keywords = <<>>

\* if category == "Uncategorized" or not keywords: continue
Skipped(rule) == rule.name = FallbackCategory \/ rule.keywords = <<>>

\* The loop over categories.items(), from category c on.
RECURSIVE ScanCategories(_, _, _)
ScanCategories(rows, rules, c) ==
    IF c > Len(rules) THEN rows
    ELSE IF Skipped(rules[c]) THEN ScanCategories(rows, rules, c + 1)
    ELSE ScanCategories(
            [idx \in 1..Len(rows) |->
                AssignRow(rows[idx], rules[c].name,
                          LoweredKeywords(rules[c].keywords))],
            rules, c + 1)

\* df["Category"] = "Uncategorized"
WithCategoryColumn(frame) ==
    Frame(IF HasColumn(frame, CategoryCol) THEN frame.columns
          ELSE Append(frame.columns, CategoryCol),
          [idx \in 1..Len(frame.rows) |->
              [col \in DOMAIN frame.rows[idx] \cup {CategoryCol} |->
                  IF col = CategoryCol THEN FallbackCategory
                  ELSE frame.rows[idx][col]]])

\* row["Description"] is read once a category is not skipped and a row exists.
ReadsDescription(frame, rules) ==
    /\ frame.rows # <<>>
    /\ \E c \in 1..Len(rules) : ~Skipped(rules[c])

categorize_transactions(frame, rules) ==
    IF ReadsDescription(frame, rules) /\ ~HasColumn(frame, DescriptionCol)
    THEN Raise("KeyError")
    ELSE Ok(Frame(WithCategoryColumn(frame).columns,
                  ScanCategories(WithCategoryColumn(frame).rows, rules, 1)))

-----------------------------------------------------------------------------
(* load_transactions *)

\* pd.read_csv(file) and df.columns = [col.strip() for col in df.columns]
ReadCsv(file) ==
    Frame([i \in 1..Len(file.header) |-> Strip(file.header[i])],
          [r \in 1..Len(file.rows) |->
              [col \in {Strip(file.header[i]) : i \in 1..Len(file.header)} |->
                  file.rows[r][CHOOSE i \in 1..Len(file.header) :
                                  Strip(file.header[i]) = col]]])

\* df["Date"] = pd.to_datetime(df["Date"], format="%m/%d/%Y"); .dt.date
ConvertDates(frame) ==
    IF ~HasColumn(frame, DateCol) THEN Raise("KeyError")
    ELSE IF \E r \in 1..Len(frame.rows) : ~ValidRawDate(frame.rows[r][DateCol])
    THEN Raise("ValueError")
    ELSE Ok(Frame(frame.columns,
                  [r \in 1..Len(frame.rows) |->
                      [frame.rows[r] EXCEPT ![DateCol] = ParseDate(@)]]))

\* The body of the try block: the table, or the exception the except catches.
load_transactions(file, rules) ==
    IF ~ConvertDates(ReadCsv(file)).ok
    THEN ConvertDates(ReadCsv(file))
    ELSE categorize_transactions(ConvertDates(ReadCsv(file)).value, rules)

-----------------------------------------------------------------------------
(* Helpers of the aggregation steps *)

Abs(x) == IF x < 0 THEN -x ELSE x

RECURSIVE SumAmounts(_)
SumAmounts(rows) ==
    IF rows = <<>> THEN 0 ELSE Head(rows)[AmountCol] + SumAmounts(Tail(rows))

IsDebit(row) == row[AmountCol] < 0
IsCredit(row) == row[AmountCol] > 0

\* The orders of 1..n a sort may return.
SortOrders(n) ==
    {p \in [1..n -> 1..n] : \A i, j \in 1..n : i # j => p[i] # p[j]}

\* first_day_ts - pd.DateOffset(months=11), from today.replace(day=1)
StartDate(day) ==
    LET months == day.year * 12 + (day.month - 1) - 11
    IN  MkDate(months \div 12, (months % 12) + 1, 1)

\* df[(df["Date"] >= start_date) & (df["Date"] <= end_date)]
InWindow(row, day) ==
    DateLE(StartDate(day), row[DateCol]) /\ DateLE(row[DateCol], day)

Last12(rows, day) == SelectSeq(rows, LAMBDA row : InWindow(row, day))

\* df_sorted["Net Balance"] = df_sorted["Amount"].cumsum()
WithNetBalance(rows) ==
    [i \in 1..Len(rows) |->
        [col \in DOMAIN rows[i] \cup {NetBalanceCol} |->
            IF col = NetBalanceCol THEN SumAmounts(SubSeq(rows, 1, i))
            ELSE rows[i][col]]]

\* df_last12.sort_values("Date"): kind defaults to "quicksort", which pandas
\* does not document as stable, so rows of equal Date come in any order.
DateSorted(rows, p) ==
    \A i, j \in 1..Len(rows) :
        i < j => DateLE(rows[p[i]][DateCol], rows[p[j]][DateCol])

-----------------------------------------------------------------------------
(* Monthly Summary *)

\* A cell of a float column: a number or NaN.
Num(x) == [nan |-> FALSE, v |-> x]
NaN == [nan |-> TRUE, v |-> 0]
Minus(a, b) == IF a.nan \/ b.nan THEN NaN ELSE Num(a.v - b.v)

\* pd.to_datetime(summary_df["Date"]).dt.to_period("M")
MonthPeriod(row) == [year |-> row[DateCol].year, month |-> row[DateCol].month]

PeriodLT(a, b) ==
    a.year < b.year \/ (a.year = b.year /\ a.month < b.month)

MonthAbbr ==
    <<"Jan", "Feb", "Mar", "Apr", "May", "Jun",
      "Jul", "Aug", "Sep", "Oct", "Nov", "Dec">>

\* strftime("%b %Y")
MonthLabel(period) == <<MonthAbbr[period.month], period.year>>

RowsOfMonth(rows, period) ==
    SelectSeq(rows, LAMBDA row : MonthPeriod(row) = period)

\* summary_df[summary_df["Amount"] > 0].groupby("MonthPeriod")["Amount"].sum()
CreditMonths(rows) == {MonthPeriod(rows[i]) : i \in {k \in 1..Len(rows) : IsCredit(rows[k])}}
Credits(rows, period) ==
    SumAmounts(SelectSeq(RowsOfMonth(rows, period), IsCredit))

\* summary_df[summary_df["Amount"] < 0].groupby("MonthPeriod")["Amount"].sum().abs()
DebitMonths(rows) == {MonthPeriod(rows[i]) : i \in {k \in 1..Len(rows) : IsDebit(rows[k])}}
Debits(rows, period) ==
    Abs(SumAmounts(SelectSeq(RowsOfMonth(rows, period), IsDebit)))

\* pd.DataFrame({"Credits": credits, "Debits": debits}): the index is the union
\* of the two series' indexes.
SummaryIndex(rows) == CreditMonths(rows) \cup DebitMonths(rows)

\* sort_values("MonthPeriod", ascending=False)
RECURSIVE MonthsDescending(_)
MonthsDescending(periods) ==
    IF periods = {} THEN <<>>
    ELSE LET latest == CHOOSE p \in periods :
                           \A q \in periods : q = p \/ PeriodLT(q, p)
         IN  <<latest>> \o MonthsDescending(periods \ {latest})

\* monthly_sum["Net Change"] = monthly_sum["Credits"] - monthly_sum["Debits"]
NetChange(credit, debit) == Minus(credit, debit)

SummaryRow(rows, period) ==
    LET credit == IF period \in CreditMonths(rows)
                  THEN Num(Credits(rows, period)) ELSE NaN
        debit == IF period \in DebitMonths(rows)
                 THEN Num(Debits(rows, period)) ELSE NaN
    IN  [Month |-> MonthLabel(period),
         Credits |-> credit,
         Debits |-> debit,
         NetChange |-> NetChange(credit, debit)]

MonthlySum(rows) ==
    LET index == MonthsDescending(SummaryIndex(rows))
    IN  [i \in 1..Len(index) |-> SummaryRow(rows, index[i])]

-----------------------------------------------------------------------------
(* Spending by Category *)

\* The category names the inputs use, in Python's string order: groupby sorts
\* its keys.
CategoryNamesSorted == <<"Bills", "Dining", "Uncategorized">>

RowsOfCategory(rows, category) ==
    SelectSeq(rows, LAMBDA row : row[CategoryCol] = category)

\* A faulty variant of PieAmount: the absolute value of the sum of all amounts.
PieAmountAllRows(rows, category) ==
    Abs(SumAmounts(RowsOfCategory(rows, category)))

\* pie_df.groupby("Category")["Amount"].sum().abs() of one category
PieAmount(rows, category) ==
    Abs(SumAmounts(SelectSeq(RowsOfCategory(rows, category), IsDebit)))

\* pie_df = df_last12[df_last12["Amount"] < 0], grouped, reset_index()
PieRows(rows) ==
    LET present == SelectSeq(CategoryNamesSorted,
                       LAMBDA c : \E i \in 1..Len(rows) :
                           IsDebit(rows[i]) /\ rows[i][CategoryCol] = c)
    IN  [i \in 1..Len(present) |->
            [Category |-> present[i], Amount |-> PieAmount(rows, present[i])]]

-----------------------------------------------------------------------------
(* Top Vendors *)

RowsOfVendor(rows, description) ==
    SelectSeq(rows, LAMBDA row : row[DescriptionCol] = description)

\* vendor_df.groupby("Description")["Amount"].sum().abs(): the groups
Vendors(rows) ==
    {rows[i][DescriptionCol] : i \in {k \in 1..Len(rows) : IsDebit(rows[k])}}

VendorAmount(rows, description) ==
    Abs(SumAmounts(SelectSeq(RowsOfVendor(rows, description), IsDebit)))

\* A faulty variant of AmountSorted: ascending.
AmountSortedAscending(table) ==
    \A i, j \in 1..Len(table) : i < j => table[i].Amount <= table[j].Amount

\* sort_values(by='Amount', ascending=False): equal amounts in any order.
AmountSorted(table) ==
    \A i, j \in 1..Len(table) : i < j => table[i].Amount >= table[j].Amount

\* The tables sort_values(...).reset_index() may return.
VendorTables(rows) ==
    LET n == Cardinality(Vendors(rows))
        arrangements == {f \in [1..n -> Vendors(rows)] :
                            \A i, j \in 1..n : i # j => f[i] # f[j]}
    IN  {t \in {[i \in 1..n |->
                    [Description |-> f[i],
                     Amount |-> VendorAmount(rows, f[i])]] : f \in arrangements} :
            AmountSorted(t)}

-----------------------------------------------------------------------------
(* The inputs: rule documents, CSV files and the current day *)

KeywordAb == <<"a", "b">>
KeywordB == <<" ", "B">>
KeywordBlank == <<" ">>

KeywordLists ==
    {<<>>, <<KeywordAb>>, <<KeywordB>>, <<KeywordBlank>>, <<KeywordB, KeywordAb>>}

CategoryNames == Range(CategoryNamesSorted)

\* The documents json.load can return: objects whose keys are distinct.
RuleSets(n) ==
    {rules \in UNION {[1..k -> [name : CategoryNames, keywords : KeywordLists]] :
                         k \in 0..n} :
        \A i, j \in 1..Len(rules) : i # j => rules[i].name # rules[j].name}

MissingFile == [exists |-> FALSE, valid |-> FALSE, content |-> <<>>]
CorruptFile == [exists |-> TRUE, valid |-> FALSE, content |-> <<>>]
RuleFile(rules) == [exists |-> TRUE, valid |-> TRUE, content |-> rules]

BillsThenDining ==
    <<[name |-> "Bills", keywords |-> <<KeywordB>>],
      [name |-> "Dining", keywords |-> <<KeywordAb>>]>>

DescriptionAb == <<"A", "b", " ">>
DescriptionBa == <<"B", "a">>
DescriptionA == <<" ", "a">>

Today1 == MkDate(2024, 3, 15)
Today2 == MkDate(2024, 12, 5)

\* Around the window of Today1: the day before it starts, its first day, a
\* second day of its first month, and its last day.
WindowDates ==
    {RawDate(3, 31, 2023), RawDate(4, 1, 2023), RawDate(4, 20, 2023),
     RawDate(3, 15, 2024)}

\* The day after Today1, inside the window of Today2.
NextDay == RawDate(3, 16, 2024)

BadDate == RawDate(13, 1, 2023)

Entry(date, description, amount) ==
    [date |-> date, description |-> description, amount |-> amount]

Tables(entries, n) == UNION {[1..k -> entries] : k \in 0..n}

\* The cell of entry e under the column whose trimmed name is col.
Cell(col, e) ==
    CASE col = DateCol -> e.date
      [] col = DescriptionCol -> e.description
      [] col = AmountCol -> e.amount
      [] OTHER -> <<"x">>

CsvFile(header, entries) ==
    [present |-> TRUE,
     header |-> header,
     rows |-> [r \in 1..Len(entries) |->
                  [i \in 1..Len(header) |-> Cell(Strip(header[i]), entries[r])]]]

NoUpload == [present |-> FALSE, header |-> <<>>, rows |-> <<>>]

FullHeader == <<<<" ">> \o DateCol, DescriptionCol \o <<" ">>, AmountCol>>

Headers ==
    {FullHeader,
     <<DateCol, DescriptionCol, AmountCol, MemoCol>>,
     <<DateCol, DescriptionCol>>,
     <<DateCol, AmountCol>>,
     <<DescriptionCol, AmountCol>>}

\* Every rule document against tables that differ in their descriptions.
CategorizerInputs ==
    /\ category_file \in {RuleFile(rules) : rules \in RuleSets(MaxCats)}
    /\ \E t \in Tables({Entry(RawDate(3, 15, 2024), d, -1) :
                          d \in {DescriptionAb, DescriptionBa, DescriptionA}},
                      MaxRows) :
          uploaded_file = CsvFile(FullHeader, t)
    /\ today = Today1

\* One rule document against tables that differ in dates and amounts.
AggregatorInputs ==
    /\ category_file = RuleFile(BillsThenDining)
    /\ \E t \in Tables({Entry(date, d, amount) :
                          date \in WindowDates,
                          d \in {DescriptionAb, DescriptionBa},
                          amount \in {-2, -1, 0, 3}},
                      MaxRows) :
          uploaded_file = CsvFile(FullHeader, t)
    /\ today = Today1

\* Missing, corrupt and present rule documents against files with and without
\* the three columns, with and without a date that does not parse.
LoaderInputs ==
    /\ category_file \in
          {MissingFile, CorruptFile, RuleFile(BillsThenDining),
           RuleFile(<<[name |-> FallbackCategory, keywords |-> <<KeywordAb>>]>>)}
    /\ \/ uploaded_file = NoUpload
       \/ \E h \in Headers :
             \E t \in Tables({Entry(date, d, amount) :
                                date \in {NextDay, BadDate},
                                d \in {DescriptionAb, DescriptionA},
                                amount \in {-1}},
                            MaxRows) :
                uploaded_file = CsvFile(h, t)
    /\ today \in {Today1, Today2}

Init ==
    /\ \/ CategorizerInputs
       \/ AggregatorInputs
       \/ LoaderInputs
    /\ pc = "start"
    /\ categories = <<>>
    /\ df = NoDf
    /\ errors = 0
    /\ exception = ""
    /\ df_last12 = <<>>
    /\ df_sorted = <<>>
    /\ monthly_sum = <<>>
    /\ pie_df = <<>>
    /\ vendor_df = <<>>
    /\ rendered = {}

-----------------------------------------------------------------------------
(* The steps of main() *)

inputs == <<category_file, uploaded_file, today>>
tables == <<df_last12, df_sorted, monthly_sum, pie_df, vendor_df>>

\* Lines 60-65: json.load raises on a document that does not parse, and
\* nothing catches it.
LoadCategories ==
    /\ pc = "start"
    /\ IF ~category_file.exists
       THEN /\ categories' = DefaultCategories
            /\ pc' = "upload"
            /\ exception' = exception
       ELSE IF category_file.valid
       THEN /\ categories' = category_file.content
            /\ pc' = "upload"
            /\ exception' = exception
       ELSE /\ categories' = categories
            /\ pc' = "crashed"
            /\ exception' = "JSONDecodeError"
    /\ UNCHANGED <<inputs, df, errors, tables, rendered>>

\* Lines 68-75: the upload widget and load_transactions, whose except clause
\* reports the error and returns None.
LoadTransactions ==
    /\ pc = "upload"
    /\ IF ~uploaded_file.present
       THEN /\ pc' = "done"
            /\ UNCHANGED <<df, errors>>
       ELSE LET result == load_transactions(uploaded_file, categories)
            IN  IF result.ok
                THEN /\ df' = result.value
                     /\ pc' = "window"
                     /\ errors' = errors
                ELSE /\ df' = NoDf
                     /\ pc' = "done"
                     /\ errors' = errors + 1
    /\ UNCHANGED <<inputs, categories, exception, tables, rendered>>

\* Lines 79-91
SelectLast12 ==
    /\ pc = "window"
    /\ df_last12' = Last12(df.rows, today)
    /\ pc' = "balance"
    /\ UNCHANGED <<inputs, categories, df, errors, exception, df_sorted,
                   monthly_sum, pie_df, vendor_df, rendered>>

\* Lines 96-120: df_sorted["Amount"] raises KeyError without the column.
CumulativeNetChange ==
    /\ pc = "balance"
    /\ IF HasColumn(df, AmountCol)
       THEN /\ \E p \in SortOrders(Len(df_last12)) :
                  /\ DateSorted(df_last12, p)
                  /\ df_sorted' = WithNetBalance(
                         [i \in 1..Len(df_last12) |-> df_last12[p[i]]])
            /\ rendered' = rendered \cup {"cnb_fig"}
            /\ pc' = "summary"
            /\ exception' = exception
       ELSE /\ pc' = "crashed"
            /\ exception' = "KeyError"
            /\ UNCHANGED <<df_sorted, rendered>>
    /\ UNCHANGED <<inputs, categories, df, errors, df_last12, monthly_sum,
                   pie_df, vendor_df>>

\* Lines 125-178
MonthlySummary ==
    /\ pc = "summary"
    /\ monthly_sum' = MonthlySum(df_last12)
    /\ rendered' = rendered \cup {"monthly_sum"}
    /\ pc' = "pie"
    /\ UNCHANGED <<inputs, categories, df, errors, exception, df_last12,
                   df_sorted, pie_df, vendor_df>>

\* Lines 184-194
SpendingByCategory ==
    /\ pc = "pie"
    /\ pie_df' = PieRows(df_last12)
    /\ rendered' = rendered \cup {"pie_fig"}
    /\ pc' = "vendors"
    /\ UNCHANGED <<inputs, categories, df, errors, exception, df_last12,
                   df_sorted, monthly_sum, vendor_df>>

\* Lines 199-216: groupby("Description") raises KeyError without the column.
TopVendors ==
    /\ pc = "vendors"
    /\ IF HasColumn(df, DescriptionCol)
       THEN /\ vendor_df' \in VendorTables(df_last12)
            /\ rendered' = rendered \cup {"vendor_df"}
            /\ pc' = "tabs"
            /\ exception' = exception
       ELSE /\ pc' = "crashed"
            /\ exception' = "KeyError"
            /\ UNCHANGED <<vendor_df, rendered>>
    /\ UNCHANGED <<inputs, categories, df, errors, df_last12, df_sorted,
                   monthly_sum, pie_df>>

\* Lines 221-232
AllTransactions ==
    /\ pc = "tabs"
    /\ rendered' = rendered \cup {"credits_df", "debits_df"}
    /\ pc' = "done"
    /\ UNCHANGED <<inputs, categories, df, errors, exception, tables>>

Next ==
    \/ LoadCategories
    \/ LoadTransactions
    \/ SelectLast12
    \/ CumulativeNetChange
    \/ MonthlySummary
    \/ SpendingByCategory
    \/ TopVendors
    \/ AllTransactions

Spec == Init /\ [][Next]_vars

-----------------------------------------------------------------------------
(* Vocabulary of the properties, stated from the inputs and the tables *)

Normalized(s) == Strip(Lower(s))

\* Some keyword of the rule, lowercased and trimmed, is a substring of the
\* lowercased and trimmed description.
RuleMatches(rule, description) ==
    \E k \in 1..Len(rule.keywords) :
        Contains(Normalized(rule.keywords[k]), Normalized(description))

\* The positions in the rule set of the categories that can claim the row.
MatchingCategories(row) ==
    {c \in 1..Len(categories) :
        /\ categories[c].name # "Uncategorized"
        /\ categories[c].keywords # <<>>
        /\ RuleMatches(categories[c], row[DescriptionCol])}

Largest(S) == CHOOSE x \in S : \A y \in S : y <= x

\* load_transactions has just returned a table.
Loaded == pc = "window"

Categorized == Loaded /\ HasColumn(df, DescriptionCol)

\* C1: after categorize_transactions returns, a transaction that some category
\* matches has the last matching category of the rule set, whichever earlier
\* categories matched too.
LastMatchWins ==
    Categorized =>
        \A i \in 1..Len(df.rows) :
            MatchingCategories(df.rows[i]) # {} =>
                df.rows[i][CategoryCol] =
                    categories[Largest(MatchingCategories(df.rows[i]))].name

\* A loaded row that two categories match.
LastMatchWinsWitness ==
    /\ Categorized
    /\ \E i \in 1..Len(df.rows) :
          Cardinality(MatchingCategories(df.rows[i])) >= 2

\* The rule set with the keyword list of "Uncategorized" replaced.
WithUncategorizedKeywords(rules, keywords) ==
    [c \in 1..Len(rules) |->
        IF rules[c].name = "Uncategorized"
        THEN [name |-> "Uncategorized", keywords |-> keywords]
        ELSE rules[c]]

\* C6: the keyword list under "Uncategorized" is never used: categorizing the
\* same table under a rule set that differs only in that list gives the same
\* Category for every transaction.
UncategorizedKeywordsUnused ==
    Loaded =>
        \A keywords \in KeywordLists :
            LET other == categorize_transactions(
                             df, WithUncategorizedKeywords(categories, keywords))
            IN  /\ other.ok
                /\ Len(other.value.rows) = Len(df.rows)
                /\ \A i \in 1..Len(df.rows) :
                      other.value.rows[i][CategoryCol] = df.rows[i][CategoryCol]

\* A row that a keyword under "Uncategorized" matches and that another
\* category, earlier in the rule set, has claimed.
UncategorizedKeywordsUnusedWitness ==
    /\ Categorized
    /\ \E i \in 1..Len(df.rows), c \in 1..Len(categories) :
          /\ categories[c].name = "Uncategorized"
          /\ RuleMatches(categories[c], df.rows[i][DescriptionCol])
          /\ df.rows[i][CategoryCol] # "Uncategorized"
          /\ \E b \in 1..(c - 1) : categories[b].name = df.rows[i][CategoryCol]

\* C7: every transaction has one category, and it is "Uncategorized" exactly
\* when no keyword of any other category is a substring of its description.
UncategorizedIffNoMatch ==
    Loaded =>
        /\ \A i \in 1..Len(df.rows) :
              /\ CategoryCol \in DOMAIN df.rows[i]
              /\ df.rows[i][CategoryCol] \in
                    {"Uncategorized"} \cup
                    {categories[c].name : c \in 1..Len(categories)}
        /\ Categorized =>
              \A i \in 1..Len(df.rows) :
                  (df.rows[i][CategoryCol] = "Uncategorized") <=>
                      ~\E c \in 1..Len(categories) :
                          /\ categories[c].name # "Uncategorized"
                          /\ RuleMatches(categories[c], df.rows[i][DescriptionCol])

\* A table with one row no category matches, though the rule set has keywords,
\* and one row a category matches only after lowercasing.
UncategorizedIffNoMatchWitness ==
    /\ Categorized
    /\ \E i, j \in 1..Len(df.rows) :
          /\ df.rows[i][CategoryCol] = "Uncategorized"
          /\ df.rows[j][CategoryCol] # "Uncategorized"
          /\ df.rows[j][DescriptionCol] # Lower(df.rows[j][DescriptionCol])
    /\ \E c \in 1..Len(categories) :
          categories[c].name # "Uncategorized" /\ categories[c].keywords # <<>>

-----------------------------------------------------------------------------
(* The aggregation tables against the windowed transactions *)

Amount(i) == df_last12[i][AmountCol]

WindowedDebits == {i \in 1..Len(df_last12) : Amount(i) < 0}
WindowedCredits == {i \in 1..Len(df_last12) : Amount(i) > 0}

\* The sum of the amounts of the windowed transactions at the positions in I.
RECURSIVE Total(_)
Total(I) ==
    IF I = {} THEN 0
    ELSE LET i == CHOOSE x \in I : TRUE IN Amount(i) + Total(I \ {i})

\* The sum of their absolute amounts.
RECURSIVE AbsTotal(_)
AbsTotal(I) ==
    IF I = {} THEN 0
    ELSE LET i == CHOOSE x \in I : TRUE IN Abs(Amount(i)) + AbsTotal(I \ {i})

\* The sum of the Amount column of a table.
RECURSIVE ColumnTotal(_)
ColumnTotal(table) ==
    IF table = <<>> THEN 0 ELSE Head(table).Amount + ColumnTotal(Tail(table))

\* The month, as the summary labels it, of windowed transaction i.
MonthOf(i) == MonthLabel(MonthPeriod(df_last12[i]))

InMonth(label) == {i \in 1..Len(df_last12) : MonthOf(i) = label}

\* C2: the Monthly Summary has exactly one row for each calendar month with a
\* transaction in the window, and no other row, also for a month whose
\* transactions all have amount 0.
OneRowPerWindowMonth ==
    pc = "pie" =>
        /\ \A i \in 1..Len(df_last12) :
              Cardinality({r \in 1..Len(monthly_sum) :
                              monthly_sum[r].Month = MonthOf(i)}) = 1
        /\ \A r \in 1..Len(monthly_sum) : InMonth(monthly_sum[r].Month) # {}

\* C3: in every row of the Monthly Summary, Net Change is a number, credits
\* minus debits of that month, an empty side counting as 0.
NetChangeIsCreditsMinusDebits ==
    pc = "pie" =>
        \A r \in 1..Len(monthly_sum) :
            LET month == InMonth(monthly_sum[r].Month)
            IN  /\ ~monthly_sum[r].NetChange.nan
                /\ monthly_sum[r].NetChange.v =
                      Total(month \cap WindowedCredits)
                          - Abs(Total(month \cap WindowedDebits))

\* C8: the balance series has one point per windowed transaction, in date
\* order with equal dates in table order, each point the sum of the amounts up
\* to it.
BalanceSeriesStable ==
    pc = "summary" =>
        /\ Len(df_sorted) = Len(df_last12)
        /\ \E p \in SortOrders(Len(df_last12)) :
              /\ \A i, j \in 1..Len(df_last12) :
                    i < j =>
                        /\ DateLE(df_last12[p[i]][DateCol], df_last12[p[j]][DateCol])
                        /\ df_last12[p[i]][DateCol] = df_last12[p[j]][DateCol]
                              => p[i] < p[j]
              /\ \A i \in 1..Len(df_last12) :
                    /\ \A col \in DOMAIN df_last12[p[i]] :
                          df_sorted[i][col] = df_last12[p[i]][col]
                    /\ df_sorted[i][NetBalanceCol] = Total({p[k] : k \in 1..i})

\* C9: the category-spend totals add up to the absolute amounts of the debits
\* in the window, a category has a row only if it has a debit in the window,
\* and aggregating the same windowed table again gives the same rows.
CategorySpendAddsUp ==
    pc = "vendors" =>
        /\ ColumnTotal(pie_df) = AbsTotal(WindowedDebits)
        /\ \A r \in 1..Len(pie_df) :
              \E i \in WindowedDebits :
                  df_last12[i][CategoryCol] = pie_df[r].Category
        /\ pie_df = PieRows(df_last12)

\* A category with a debit in the window, and a category whose only windowed
\* transaction is a credit, which has no row.
CategorySpendAddsUpWitness ==
    /\ pc = "vendors"
    /\ Len(pie_df) = 1
    /\ \E i \in WindowedCredits :
          \A r \in 1..Len(pie_df) :
              pie_df[r].Category # df_last12[i][CategoryCol]

\* The rows of Top Vendors that carry the description of windowed debit i.
VendorRows(i) ==
    {r \in 1..Len(vendor_df) :
        vendor_df[r].Description = df_last12[i][DescriptionCol]}

\* C10: Top Vendors is sorted by amount, descending; every description of a
\* debit in the window has exactly one row, whose amount is the absolute sum
\* of that description's debits; no other description has a row.
TopVendorsSorted ==
    pc = "tabs" =>
        /\ \A r \in 1..(Len(vendor_df) - 1) :
              vendor_df[r].Amount >= vendor_df[r + 1].Amount
        /\ \A i \in WindowedDebits :
              /\ Cardinality(VendorRows(i)) = 1
              /\ \A r \in VendorRows(i) :
                    vendor_df[r].Amount =
                        Abs(Total({k \in WindowedDebits :
                                      df_last12[k][DescriptionCol] =
                                          df_last12[i][DescriptionCol]}))
        /\ \A r \in 1..Len(vendor_df) :
              \E i \in WindowedDebits :
                  df_last12[i][DescriptionCol] = vendor_df[r].Description

\* Two vendors of different totals.
TopVendorsSortedWitness ==
    /\ pc = "tabs"
    /\ Len(vendor_df) = 2
    /\ vendor_df[1].Amount > vendor_df[2].Amount

-----------------------------------------------------------------------------
(* Failures of the loader and of the rule store *)

RequiredColumns == {DateCol, DescriptionCol, AmountCol}

TrimmedHeader ==
    {Strip(uploaded_file.header[i]) : i \in 1..Len(uploaded_file.header)}

\* load_transactions has run on an upload.
LoadRan ==
    /\ uploaded_file.present
    /\ pc \notin {"start", "upload"}
    /\ exception # "JSONDecodeError"

\* C4: a file that lacks Date, Description or Amount after trimming the header
\* fails the load with one error and no table, and nothing is aggregated or
\* rendered, under every rule set.
MissingColumnFailsLoad ==
    LoadRan /\ ~(RequiredColumns \subseteq TrimmedHeader) =>
        /\ ~df.ok
        /\ errors = 1
        /\ pc = "done"
        /\ rendered = {}

\* C5: a rule document that is missing or does not parse leaves the default
\* rule set in use and the session reaches the upload step.
RuleLoadNeverFails ==
    pc # "start" /\ ~(category_file.exists /\ category_file.valid) =>
        /\ categories = DefaultCategories
        /\ exception # "JSONDecodeError"

====
